---- MODULE Spec2Model ----
(***************************************************************************)
(* A model of scripts/scrape.py, the NICAR 2019 schedule scraper: a linear *)
(* pipeline (fetch, encoding repair, HTML parse, session extraction, sort, *)
(* JSON write, CSV write) built from pure functions on text.               *)
(*                                                                         *)
(* Text is modelled as a sequence of one-character strings, ordered by     *)
(* code point (Ord), so that splitting, formatting, parsing and lexical    *)
(* comparison are computed rather than assumed.  The encoding repair works *)
(* on sequences of code points (numbers), because it does arithmetic on    *)
(* them.  A Python call that may raise returns Ok(v) or Raise(e).          *)
(***************************************************************************)
EXTENDS Integers, Sequences, FiniteSets, TLC

VARIABLES
    pc,        \* position of the run (pipeline) or of the function under study
    content,   \* what the network returned to requests.get
    sessions,  \* the list of session records held by get_sessions / main
    jsonFile,  \* state of schedule/nicar-2019-schedule.json
    csvFile,   \* state of schedule/nicar-2019-schedule.csv
    log,       \* history: the stages entered so far, in order
    error,     \* the exception that ended the run, "none" while there is none
    arg,       \* input of the function under study
    ret        \* its result: get_sessions' local values during a run

vars == <<pc, content, sessions, jsonFile, csvFile, log, error, arg, ret>>

(***************************************************************************)
(* Python values                                                           *)
(***************************************************************************)
Ok(v) == [ok |-> TRUE, val |-> v]

Raise(e) == [ok |-> FALSE, err |-> e]

\* Python's None where a text is expected: a value that is no text.
None == <<"None">>

\* Code points of the characters the model's texts are made of.
Ord(c) ==
    CASE c = "\n" -> 10 [] c = " " -> 32 [] c = "-" -> 45 [] c = "." -> 46
      [] c = "/" -> 47
      [] c = "0" -> 48 [] c = "1" -> 49 [] c = "2" -> 50 [] c = "3" -> 51
      [] c = "4" -> 52 [] c = "5" -> 53 [] c = "6" -> 54 [] c = "7" -> 55
      [] c = "8" -> 56 [] c = "9" -> 57 [] c = ":" -> 58
      [] c = "A" -> 65 [] c = "M" -> 77 [] c = "S" -> 83
      [] c = "a" -> 97 [] c = "b" -> 98 [] c = "c" -> 99 [] c = "e" -> 101
      [] c = "h" -> 104 [] c = "i" -> 105 [] c = "k" -> 107 [] c = "m" -> 109
      [] c = "o" -> 111 [] c = "p" -> 112 [] c = "r" -> 114 [] c = "s" -> 115
      [] c = "t" -> 116 [] c = "w" -> 119 [] c = "x" -> 120

DigitChars == <<"0", "1", "2", "3", "4", "5", "6", "7", "8", "9">>

IsDigit(c) == \E i \in 1..10 : DigitChars[i] = c

DigitVal(c) == (CHOOSE i \in 1..10 : DigitChars[i] = c) - 1

\* str < str: lexicographic by code point, a proper prefix is smaller.
StrLess(a, b) ==
    \E i \in 1..(Len(a) + 1) :
        /\ i <= Len(b)
        /\ \A j \in 1..(i - 1) : a[j] = b[j]
        /\ \/ i = Len(a) + 1
           \/ Ord(a[i]) < Ord(b[i])

StartsWith(s, p) == Len(s) >= Len(p) /\ SubSeq(s, 1, Len(p)) = p

\* Index of the first occurrence of sep in s at or after position i, 0 if none.
RECURSIVE Find(_, _, _)
Find(s, sep, i) ==
    IF i + Len(sep) - 1 > Len(s) THEN 0
    ELSE IF SubSeq(s, i, i + Len(sep) - 1) = sep THEN i
    ELSE Find(s, sep, i + 1)

\* str.split(sep) for a non-empty separator: always at least one part.
RECURSIVE Split(_, _)
Split(s, sep) ==
    LET k == Find(s, sep, 1) IN
    IF k = 0 THEN <<s>>
    ELSE <<SubSeq(s, 1, k - 1)>> \o Split(SubSeq(s, k + Len(sep), Len(s)), sep)

\* sep.join(parts)
RECURSIVE Join(_, _)
Join(sep, parts) ==
    IF parts = <<>> THEN <<>>
    ELSE IF Len(parts) = 1 THEN parts[1]
    ELSE parts[1] \o sep \o Join(sep, Tail(parts))

\* str.count(c) for a one-character c
Count(s, c) == Cardinality({i \in 1..Len(s) : s[i] = c})

\* The value of a non-empty run of decimal digits.
RECURSIVE DigitsValue(_)
DigitsValue(s) ==
    IF s = <<>> THEN 0
    ELSE 10 * DigitsValue(SubSeq(s, 1, Len(s) - 1)) + DigitVal(s[Len(s)])

\* int(s): a ValueError unless s is a non-empty run of decimal digits.
ParseInt(s) ==
    IF s # <<>> /\ \A i \in 1..Len(s) : IsDigit(s[i])
    THEN Ok(DigitsValue(s))
    ELSE Raise("ValueError")

\* str(n) for n >= 0
RECURSIVE Digits(_)
Digits(n) ==
    IF n < 10 THEN <<DigitChars[n + 1]>>
    ELSE Digits(n \div 10) \o <<DigitChars[(n % 10) + 1]>>

PadWidth == 2

\* "{:02d}".format(n) for n >= 0: at least two digits, padded with zeros.
Format02d(n) ==
    LET d == Digits(n) IN
    IF Len(d) >= PadWidth THEN d
    ELSE [i \in 1..(PadWidth - Len(d)) |-> "0"] \o d

(***************************************************************************)
(* convert_time and calculate_length                                       *)
(***************************************************************************)
AM == <<"a", "m">>

PM == <<"p", "m">>

NoonHour == 12

HalfDay == 12

MinutesPerHour == 60

\* hours += (is_pm and hours != 12) * 12
ShiftHours_NoNoonException(hours, is_pm) == IF is_pm THEN hours + HalfDay ELSE hours

ShiftHours(hours, is_pm) ==
    IF is_pm /\ hours # NoonHour THEN hours + HalfDay ELSE hours

\* "{0:02d}:{1:02d}".format(hours, minutes)
FormatTime_Unpadded(hours, minutes) == Digits(hours) \o <<":">> \o Digits(minutes)

FormatTime(hours, minutes) == Format02d(hours) \o <<":">> \o Format02d(minutes)

\* list(map(int, text.split(":"))) unpacked into exactly two names
ParseHoursMinutes(text) ==
    LET parts == Split(text, <<":">>) IN
    IF \E i \in 1..Len(parts) : ~ParseInt(parts[i]).ok THEN Raise("ValueError")
    ELSE IF Len(parts) # 2 THEN Raise("ValueError")
    ELSE Ok(<<ParseInt(parts[1]).val, ParseInt(parts[2]).val>>)

convert_time(ts) ==
    LET parts == Split(ts, <<" ">>) IN
    IF Len(parts) # 2 THEN Raise("ValueError")
    ELSE
      LET nums   == parts[1]
          suffix == parts[2]
      IN
      IF suffix # PM /\ suffix # AM THEN Raise("ValueError")
      ELSE
        LET is_pm == (suffix = PM)
            full  == IF Count(nums, ":") = 0 THEN nums \o <<":", "0", "0">> ELSE nums
            hm    == ParseHoursMinutes(full)
        IN
        IF ~hm.ok THEN hm
        ELSE Ok(FormatTime(ShiftHours(hm.val[1], is_pm), hm.val[2]))

\* calculate_length returns minutes / 60 as a float; the model keeps the exact
\* numerator, the difference in minutes.
calculate_length_Swapped(start, end) ==
    LET s == ParseHoursMinutes(start)
        e == ParseHoursMinutes(end)
    IN
    IF ~s.ok THEN s
    ELSE IF ~e.ok THEN e
    ELSE Ok(((s.val[1] * MinutesPerHour) + s.val[2])
            - ((e.val[1] * MinutesPerHour) + e.val[2]))

calculate_length(start, end) ==
    LET s == ParseHoursMinutes(start)
        e == ParseHoursMinutes(end)
    IN
    IF ~s.ok THEN s
    ELSE IF ~e.ok THEN e
    ELSE Ok(((e.val[1] * MinutesPerHour) + e.val[2])
            - ((s.val[1] * MinutesPerHour) + s.val[2]))

\* round(minutes / 60, 3), in thousandths of an hour.  minutes * 1000 / 60 is
\* never half-way between two integers, so this is rounding to the nearest.
RoundedLength(minutes) == ((100 * minutes) + 3) \div 6

\* time_start, time_end = map(convert_time, s_time.split(" - ")): None has no
\* split; every other failure (a token convert_time rejects, fewer or more
\* than two tokens to unpack) is a ValueError.
ParseWindow(s_time) ==
    IF s_time = None THEN Raise("AttributeError")
    ELSE
      LET parts == Split(s_time, <<" ", "-", " ">>)
          times == [i \in 1..Len(parts) |-> convert_time(parts[i])]
      IN
      IF Len(parts) # 2 \/ \E i \in 1..Len(parts) : ~times[i].ok
      THEN Raise("ValueError")
      ELSE Ok(<<times[1].val, times[2].val>>)

(***************************************************************************)
(* The time functions on their own: a time window "<start> - <end>" built  *)
(* from two 12-hour tokens is converted and measured.                      *)
(***************************************************************************)
MaxHour == 12

Minutes == {0, 5, 30, 59}

Suffixes == {AM, PM, <<"A", "M">>, <<>>}

\* A token as the page writes it: the hour, ":MM" when colon, a space, the suffix.
Tokens ==
    { [h |-> h, colon |-> FALSE, m |-> 0, suffix |-> x] :
        h \in 0..MaxHour, x \in Suffixes }
    \cup
    { [h |-> h, colon |-> TRUE, m |-> m, suffix |-> x] :
        h \in 0..MaxHour, m \in Minutes, x \in Suffixes }

TokenText(t) ==
    Digits(t.h)
    \o (IF t.colon
        THEN <<":", DigitChars[(t.m \div 10) + 1], DigitChars[(t.m % 10) + 1]>>
        ELSE <<>>)
    \o <<" ">> \o t.suffix

WindowText(a, b) == TokenText(a) \o <<" ", "-", " ">> \o TokenText(b)

NoFile == [state |-> "untouched", data |-> <<>>]

\* The run has not started: what the specifications of single functions keep.
Idle ==
    /\ content = [kind |-> "none"]
    /\ sessions = <<>>
    /\ jsonFile = NoFile
    /\ csvFile = NoFile
    /\ log = <<>>
    /\ error = "none"

InitTime ==
    /\ pc = "time_input"
    /\ Idle
    /\ \E a \in Tokens, b \in Tokens :
         arg = [start |-> a, end |-> b, text |-> WindowText(a, b)]
    /\ ret = <<>>

\* parse_session, lines 76-77: both tokens go through convert_time.
ConvertWindow ==
    /\ pc = "time_input"
    /\ pc' = "time_converted"
    /\ ret' = [start  |-> convert_time(TokenText(arg.start)),
               end    |-> convert_time(TokenText(arg.end)),
               window |-> ParseWindow(arg.text)]
    /\ UNCHANGED <<content, sessions, jsonFile, csvFile, log, error, arg>>

\* parse_session, line 90: round(calculate_length(time_start, time_end), 3)
MeasureWindow ==
    /\ pc = "time_converted"
    /\ ret.window.ok
    /\ pc' = "time_measured"
    /\ LET len == calculate_length(ret.window.val[1], ret.window.val[2]) IN
         ret' = [start  |-> ret.start,
                 end    |-> ret.end,
                 window |-> ret.window,
                 length |-> len,
                 length_in_hours |-> IF len.ok THEN RoundedLength(len.val) ELSE 0]
    /\ UNCHANGED <<content, sessions, jsonFile, csvFile, log, error, arg>>

NextTime == ConvertWindow \/ MeasureWindow

SpecTime == InitTime /\ [][NextTime]_vars

\* What a converted time says, read back digit by digit.
IsHHMM(t) ==
    /\ Len(t) = 5
    /\ t[3] = ":"
    /\ \A i \in {1, 2, 4, 5} : IsDigit(t[i])

HourOf(t) == (10 * DigitVal(t[1])) + DigitVal(t[2])

MinuteOf(t) == (10 * DigitVal(t[4])) + DigitVal(t[5])

TokenConvertedRight(t, r) ==
    IF t.suffix # AM /\ t.suffix # PM
    THEN r = Raise("ValueError")
    ELSE /\ r.ok
         /\ IsHHMM(r.val)
         /\ HourOf(r.val) = t.h + (IF t.suffix = PM /\ t.h # 12 THEN 12 ELSE 0)
         /\ MinuteOf(r.val) = (IF t.colon THEN t.m ELSE 0)

\* C1: convert_time treats a token without ':' as a whole hour, adds 12 to the
\* hour exactly when the suffix is "pm" and the hour is not 12, returns the
\* zero-padded two-digit "HH:MM" text, and raises a parse error for every
\* suffix other than "am" and "pm".
C1_ConvertTime ==
    pc \in {"time_converted", "time_measured"} =>
        /\ TokenConvertedRight(arg.start, ret.start)
        /\ TokenConvertedRight(arg.end, ret.end)

\* "12 pm" has become "12:00", next to a token whose suffix is rejected.
C1_Witness ==
    /\ pc = "time_converted"
    /\ arg.start = [h |-> 12, colon |-> FALSE, m |-> 0, suffix |-> PM]
    /\ ret.start = Ok(<<"1", "2", ":", "0", "0">>)
    /\ arg.end.suffix = <<"A", "M">>
    /\ ~ret.end.ok

\* The tokens the claims about the 12-hour clock speak of.
TwelveHourToken(t) == t.h \in 1..12 /\ t.suffix \in {AM, PM}

\* Minutes since midnight of a 12-hour token on the clock: 12 am is 0:MM.
ClockMinutes(t) == (((t.h % 12) + (IF t.suffix = PM THEN 12 ELSE 0)) * 60) + t.m

InMidnightHour(t) == t.h = 12 /\ t.suffix = AM

ForwardWindow ==
    /\ TwelveHourToken(arg.start)
    /\ TwelveHourToken(arg.end)
    /\ ClockMinutes(arg.start) <= ClockMinutes(arg.end)

NonNegativeLength ==
    /\ ret.length.ok
    /\ ret.length_in_hours >= 0
    /\ ~StrLess(ret.window.val[2], ret.window.val[1])

\* C4 as stated: every window of 12-hour tokens whose end is not earlier than
\* its start on the clock, windows starting or ending at "12 am" included,
\* has a non-negative length_in_hours and time_start <= time_end.
C4_AsStated == (pc = "time_measured" /\ ForwardWindow) => NonNegativeLength

\* C4 as amended: the same, except for windows that start in the 12 am hour
\* and end outside it; and in every window the length is non-negative exactly
\* when time_start <= time_end in lexical order.
C4_NonNegativeLength ==
    pc = "time_measured" =>
        /\ (ForwardWindow
            /\ (InMidnightHour(arg.start) => InMidnightHour(arg.end)))
              => NonNegativeLength
        /\ (TwelveHourToken(arg.start) /\ TwelveHourToken(arg.end)) =>
              (ret.length_in_hours >= 0
                 <=> ~StrLess(ret.window.val[2], ret.window.val[1]))

\* "12 am - 12:30 am" has been measured as half an hour.
C4_Witness ==
    /\ pc = "time_measured"
    /\ arg.start = [h |-> 12, colon |-> FALSE, m |-> 0, suffix |-> AM]
    /\ arg.end = [h |-> 12, colon |-> TRUE, m |-> 30, suffix |-> AM]
    /\ ret.length_in_hours = 500

TotalMinutes(t) ==
    LET hm == ParseHoursMinutes(t).val IN (hm[1] * 60) + hm[2]

\* C10: for two 12-hour tokens (hour 1..12, optional minutes, am or pm) the
\* converted texts are five characters "HH:MM", and their lexical order is the
\* numeric order of their total minutes, which is the sign calculate_length
\* computes.
C10_LexicalIsNumeric ==
    (pc = "time_measured" /\ TwelveHourToken(arg.start) /\ TwelveHourToken(arg.end)) =>
        LET a == ret.window.val[1]
            b == ret.window.val[2]
        IN
        /\ IsHHMM(a) /\ IsHHMM(b)
        /\ StrLess(a, b) <=> TotalMinutes(a) < TotalMinutes(b)
        /\ StrLess(b, a) <=> TotalMinutes(b) < TotalMinutes(a)
        /\ (a = b) <=> TotalMinutes(a) = TotalMinutes(b)
        /\ ret.length.ok
        /\ StrLess(a, b) <=> ret.length.val > 0
        /\ StrLess(b, a) <=> ret.length.val < 0

\* "9:30 am - 1 pm": the single-digit morning hour sorts before the afternoon.
C10_Witness ==
    /\ pc = "time_measured"
    /\ arg.start = [h |-> 9, colon |-> TRUE, m |-> 30, suffix |-> AM]
    /\ arg.end = [h |-> 1, colon |-> FALSE, m |-> 0, suffix |-> PM]
    /\ ret.window.val = << <<"0", "9", ":", "3", "0">>, <<"1", "3", ":", "0", "0">> >>
    /\ StrLess(ret.window.val[1], ret.window.val[2])

(***************************************************************************)
(* fix_encoding.  Bytes and code points are numbers here.                  *)
(***************************************************************************)
IsCont(b) == b >= \h80 /\ b <= \hBF

\* How many continuation bytes a UTF-8 lead byte announces; -1: no lead byte.
Following(b) ==
    IF b >= \hC2 /\ b <= \hDF THEN 1
    ELSE IF b >= \hE0 /\ b <= \hEF THEN 2
    ELSE IF b >= \hF0 /\ b <= \hF4 THEN 3
    ELSE -1

\* The second byte of a sequence is further restricted after some lead bytes
\* (no overlong forms, no surrogates, nothing above U+10FFFF).
SecondByteOk(lead, b) ==
    /\ IsCont(b)
    /\ (lead = \hE0 => b >= \hA0)
    /\ (lead = \hED => b <= \h9F)
    /\ (lead = \hF0 => b >= \h90)
    /\ (lead = \hF4 => b <= \h8F)

\* bytes.decode("utf-8"), strict
RECURSIVE DecodeUtf8(_)
DecodeUtf8(bytes) ==
    IF bytes = <<>> THEN Ok(<<>>)
    ELSE
      LET b == bytes[1] IN
      IF b < \h80 THEN
        LET rest == DecodeUtf8(Tail(bytes)) IN
        IF rest.ok THEN Ok(<<b>> \o rest.val) ELSE rest
      ELSE
        LET n == Following(b) IN
        IF \/ n = -1
           \/ Len(bytes) < n + 1
           \/ ~SecondByteOk(b, bytes[2])
           \/ \E i \in 3..(n + 1) : ~IsCont(bytes[i])
        THEN Raise("UnicodeDecodeError")
        ELSE
          LET first == IF n = 1 THEN b - \hC0
                       ELSE IF n = 2 THEN b - \hE0
                       ELSE b - \hF0
              cp == IF n = 1 THEN (first * 64) + (bytes[2] - \h80)
                    ELSE IF n = 2
                    THEN (first * 4096) + ((bytes[2] - \h80) * 64) + (bytes[3] - \h80)
                    ELSE (first * 262144) + ((bytes[2] - \h80) * 4096)
                         + ((bytes[3] - \h80) * 64) + (bytes[4] - \h80)
              rest == DecodeUtf8(SubSeq(bytes, n + 2, Len(bytes)))
          IN
          IF rest.ok THEN Ok(<<cp>> \o rest.val) ELSE rest

\* str.encode("utf-8") for code points that are no surrogates
RECURSIVE EncodeUtf8(_)
EncodeUtf8(text) ==
    IF text = <<>> THEN <<>>
    ELSE
      LET c == text[1] IN
      (IF c < \h80 THEN <<c>>
       ELSE IF c < \h800 THEN <<\hC0 + (c \div 64), \h80 + (c % 64)>>
       ELSE IF c < \h10000
       THEN <<\hE0 + (c \div 4096), \h80 + ((c \div 64) % 64), \h80 + (c % 64)>>
       ELSE <<\hF0 + (c \div 262144), \h80 + ((c \div 4096) % 64),
              \h80 + ((c \div 64) % 64), \h80 + (c % 64)>>)
      \o EncodeUtf8(Tail(text))

\* str.encode("latin-1"): one byte per character, none above U+00FF
EncodeLatin1(text) ==
    IF \E i \in 1..Len(text) : text[i] > \hFF
    THEN Raise("UnicodeEncodeError")
    ELSE Ok(text)

\* pat = r"[\xc2-\xf4][\x80-\xbf]+": the two character classes
PatLead(c) == c >= \hC2 /\ c <= \hF4

PatCont(c) == c >= \h80 /\ c <= \hBF

\* The end of the match starting at i: "+" is greedy, it takes every
\* following character of the second class.
RECURSIVE MatchEnd(_, _)
MatchEnd(text, j) ==
    IF j < Len(text) /\ PatCont(text[j + 1]) THEN MatchEnd(text, j + 1) ELSE j

\* fix = lambda m: m.group(0).encode("latin-1").decode("utf-8")
fix_Keep(m) == Ok(m)

fix(m) ==
    LET bytes == EncodeLatin1(m) IN
    IF bytes.ok THEN DecodeUtf8(bytes.val) ELSE bytes

\* re.sub(pat, fix, text): leftmost non-overlapping matches, each replaced.
RECURSIVE Sub(_, _)
Sub(text, i) ==
    IF i > Len(text) THEN Ok(<<>>)
    ELSE IF PatLead(text[i]) /\ i < Len(text) /\ PatCont(text[i + 1])
    THEN
      LET j    == MatchEnd(text, i + 1)
          repl == fix(SubSeq(text, i, j))
          rest == Sub(text, j + 1)
      IN
      IF ~repl.ok THEN repl
      ELSE IF ~rest.ok THEN rest
      ELSE Ok(repl.val \o rest.val)
    ELSE
      LET rest == Sub(text, i + 1) IN
      IF rest.ok THEN Ok(<<text[i]>> \o rest.val) ELSE rest

fix_encoding(string) ==
    LET decoded == DecodeUtf8(string) IN
    IF decoded.ok THEN Sub(decoded.val, 1) ELSE decoded

MaxText == 4

\* "A", and the characters of mis-stored "é" (C3 A9) and of a mis-stored
\* euro sign (E2 82 AC), and "é" itself.
TextChars == {\h41, \hC3, \hA9, \hE9, \hE2, \h82, \hAC}

Texts == UNION { [1..n -> TextChars] : n \in 0..MaxText }

InitEnc ==
    /\ pc = "enc_input"
    /\ Idle
    /\ \/ \E t \in Texts : arg = [text |-> t, bytes |-> EncodeUtf8(t)]
       \/ arg = [text |-> <<>>, bytes |-> <<\hE9>>]
    /\ ret = <<>>

FixEncoding ==
    /\ pc = "enc_input"
    /\ pc' = "enc_fixed"
    /\ ret' = [once |-> fix_encoding(arg.bytes)]
    /\ UNCHANGED <<content, sessions, jsonFile, csvFile, log, error, arg>>

FixEncodingAgain ==
    /\ pc = "enc_fixed"
    /\ ret.once.ok
    /\ pc' = "enc_refixed"
    /\ ret' = [once |-> ret.once, twice |-> fix_encoding(EncodeUtf8(ret.once.val))]
    /\ UNCHANGED <<content, sessions, jsonFile, csvFile, log, error, arg>>

NextEnc == FixEncoding \/ FixEncodingAgain

SpecEnc == InitEnc /\ [][NextEnc]_vars

\* An artifact: a character in U+00C2..U+00F4 immediately followed by one in
\* U+0080..U+00BF.
HasArtifact(t) ==
    \E i \in 1..(Len(t) - 1) :
        /\ t[i] >= 194 /\ t[i] <= 244
        /\ t[i + 1] >= 128 /\ t[i + 1] <= 191

ValidInput == arg.bytes = EncodeUtf8(arg.text)

\* The places where "é" sits as the two characters U+00C3 U+00A9 in a text
\* that has no other artifact.
MisstoredAt ==
    { i \in 1..(Len(arg.text) - 1) :
        /\ arg.text[i] = 195 /\ arg.text[i + 1] = 169
        /\ ~HasArtifact(SubSeq(arg.text, 1, i - 1))
        /\ ~HasArtifact(SubSeq(arg.text, i + 2, Len(arg.text))) }

RepairedAt(i) ==
    ret.once = Ok(SubSeq(arg.text, 1, i - 1) \o <<233>>
                  \o SubSeq(arg.text, i + 2, Len(arg.text)))

IdentityWithoutArtifact ==
    /\ (pc \in {"enc_fixed", "enc_refixed"} /\ ValidInput /\ ~HasArtifact(arg.text))
          => ret.once = Ok(arg.text)
    /\ (pc = "enc_refixed" /\ ValidInput /\ ~HasArtifact(arg.text))
          => ret.twice = Ok(arg.text)

\* C8 as stated: the repair is the identity on text without artifact, once or
\* twice; and a text holding "é" as U+00C3 U+00A9 is repaired to U+00E9 with
\* the rest of the text unchanged.
C8_AsStated ==
    /\ IdentityWithoutArtifact
    /\ (pc \in {"enc_fixed", "enc_refixed"} /\ ValidInput) =>
          \A i \in MisstoredAt : RepairedAt(i)

\* C8 as amended: the second half holds when the two characters are not
\* immediately followed by a character in U+0080..U+00BF; when they are, the
\* greedy match takes that character too and the re-decoding raises.
C8_FixEncoding ==
    /\ IdentityWithoutArtifact
    /\ (pc \in {"enc_fixed", "enc_refixed"} /\ ValidInput) =>
          \A i \in MisstoredAt :
              IF i + 2 <= Len(arg.text)
                 /\ arg.text[i + 2] >= 128 /\ arg.text[i + 2] <= 191
              THEN ~ret.once.ok
              ELSE RepairedAt(i)

\* "AÃ©A" has become "AéA", and repairing the result again changed nothing.
C8_Witness ==
    /\ pc = "enc_refixed"
    /\ arg.text = <<65, 195, 169, 65>>
    /\ ret.once = Ok(<<65, 233, 65>>)
    /\ ret.twice = Ok(<<65, 233, 65>>)

(***************************************************************************)
(* parse_session.  A session element is modelled by what each selector     *)
(* finds in it: the raw text content of every match, in document order.    *)
(* For ".event-title a" each match is <<href>>, or <<>> when the link has  *)
(* no href attribute.                                                      *)
(***************************************************************************)
IsSpace(c) == c = " " \/ c = "\n"

\* str.strip()
RECURSIVE Strip(_)
Strip(s) ==
    IF s = <<>> THEN s
    ELSE IF IsSpace(s[1]) THEN Strip(Tail(s))
    ELSE IF IsSpace(s[Len(s)]) THEN Strip(SubSeq(s, 1, Len(s) - 1))
    ELSE s

\* [x for x in xs if len(x)]
RECURSIVE NonEmpty(_)
NonEmpty(xs) ==
    IF xs = <<>> THEN <<>>
    ELSE IF xs[1] = <<>> THEN NonEmpty(Tail(xs))
    ELSE <<xs[1]>> \o NonEmpty(Tail(xs))

\* get_text(sel), given the text contents of the elements sel matches
get_text(matches) ==
    LET stripped == [i \in 1..Len(matches) |-> Strip(matches[i])]
        joined   == Join(<<"\n", "\n">>, NonEmpty(stripped))
    IN
    IF joined = <<>> THEN None ELSE joined

RECURSIVE LStrip(_)
LStrip(s) == IF s # <<>> /\ IsSpace(s[1]) THEN LStrip(Tail(s)) ELSE s

\* re.sub(r"^Speakers?:\s+", "", speakers_raw)
StripSpeakerLabel(raw) ==
    LET word  == <<"S", "p", "e", "a", "k", "e", "r">>
        after == IF StartsWith(raw, word) THEN SubSeq(raw, 8, Len(raw)) ELSE <<>>
        colon == IF after # <<>> /\ after[1] = "s" THEN Tail(after) ELSE after
    IN
    IF /\ StartsWith(raw, word)
       /\ Len(colon) >= 2
       /\ colon[1] = ":"
       /\ IsSpace(colon[2])
    THEN LStrip(Tail(colon))
    ELSE raw

\* xs[-3:-1]: a slice never raises, it is cut to what the list holds
SliceLastButOne(xs) ==
    LET n     == Len(xs)
        start == IF n - 3 > 0 THEN n - 3 ELSE 0
        stop  == IF n - 1 > 0 THEN n - 1 ELSE 0
    IN SubSeq(xs, start + 1, stop)

\* s_id = "/".join(s_href.split("/")[-3:-1])
event_id_Indexed(s_href) ==
    LET xs == Split(s_href, <<"/">>) IN
    IF Len(xs) < 3 THEN Raise("IndexError")
    ELSE Ok(xs[Len(xs) - 2] \o <<"/">> \o xs[Len(xs) - 1])

event_id(s_href) == Ok(Join(<<"/">>, SliceLastButOne(Split(s_href, <<"/">>))))

UrlPrefix ==
    <<"h", "t", "t", "p", "s", ":", "/", "/", "i", "r", "e", ".", "o", "r", "g">>

\* The OrderedDict of lines 82-94
SessionRecord_DropAbsentRoom(title, type, description, speakers, date, time_start, time_end, length_in_hours, room, s_id, s_href) ==
    LET rec == [title |-> title, type |-> type, description |-> description,
                speakers |-> speakers, date |-> date, time_start |-> time_start,
                time_end |-> time_end, length_in_hours |-> length_in_hours,
                event_id |-> s_id, event_url |-> UrlPrefix \o s_href]
    IN IF room = None THEN rec ELSE [f \in DOMAIN rec \cup {"room"} |->
                                       IF f = "room" THEN room ELSE rec[f]]

SessionRecord(title, type, description, speakers, date, time_start, time_end, length_in_hours, room, s_id, s_href) ==
    [title |-> title, type |-> type, description |-> description,
     speakers |-> speakers, date |-> date, time_start |-> time_start,
     time_end |-> time_end, length_in_hours |-> length_in_hours,
     room |-> room, event_id |-> s_id, event_url |-> UrlPrefix \o s_href]

parse_session(el, date) ==
    LET speakers_raw == get_text(el.speakers)
        s_speakers   == IF speakers_raw = None THEN None
                        ELSE StripSpeakerLabel(speakers_raw)
        window       == ParseWindow(get_text(el.meta))
    IN
    IF ~window.ok THEN window
    ELSE IF el.links = <<>> THEN Raise("IndexError")
    ELSE IF el.links[1] = <<>> THEN Raise("KeyError")
    ELSE
      LET s_href == el.links[1][1]
          s_id   == event_id(s_href)
          len    == calculate_length(window.val[1], window.val[2])
      IN
      IF ~s_id.ok THEN s_id
      ELSE IF ~len.ok THEN len
      ELSE Ok(SessionRecord(get_text(el.title), get_text(el.type),
                            get_text(el.description), s_speakers, date,
                            window.val[1], window.val[2], RoundedLength(len.val),
                            get_text(el.room), s_id.val, s_href))

(***************************************************************************)
(* save_csv                                                                *)
(***************************************************************************)
columns ==
    <<"event_id", "type", "date", "time_start", "time_end", "room", "title",
      "speakers", "description", "event_url", "length_in_hours">>

ColumnSet == {columns[i] : i \in 1..Len(columns)}

\* What the csv writer puts in a cell: nothing for None, the value otherwise.
Cell(rowdict, key) ==
    IF key \notin DOMAIN rowdict THEN <<>>
    ELSE IF key = "length_in_hours" THEN rowdict[key]
    ELSE IF rowdict[key] = None THEN <<>>
    ELSE rowdict[key]

\* csv.DictWriter(f, fieldnames = columns): writeheader, then writerows, which
\* rejects a dict with a key that is no column and fills a missing column
\* with the empty restval.
save_csv_rows(recs) ==
    IF \E i \in 1..Len(recs) : DOMAIN recs[i] \ ColumnSet # {}
    THEN Raise("ValueError")
    ELSE Ok(<<columns>> \o
            [i \in 1..Len(recs) |->
                [k \in 1..Len(columns) |-> Cell(recs[i], columns[k])]])

(***************************************************************************)
(* One session element on its own: parsed, then written as a CSV row.      *)
(***************************************************************************)
MaxHref == 4

HrefChars == {"/", "a", "b"}

Hrefs == UNION { [1..n -> HrefChars] : n \in 0..MaxHref }

MetaTexts ==
    { <<>>,
      << <<" ", "9", " ", "a", "m", " ", "-", " ", "1", "0", ":", "3", "0", " ", "a", "m", "\n">> >>,
      << <<"9", " ", "a", "m">> >> }

TitleTexts == { << <<" ">> >>, << <<" ", "a">> >>, << <<"a">>, <<"b", " ">> >> }

SpeakerTexts ==
    { <<>>,
      << <<"S", "p", "e", "a", "k", "e", "r", "s", ":", " ", " ", "a", "b">> >>,
      << <<"S", "p", "e", "a", "k", "e", "r", ":", "a">> >> }

OtherTexts == { <<>>, << <<"c">> >> }

\* An .event-title element, with or without a link in it, or none at all.
TitleParts ==
    { [title |-> <<>>, links |-> <<>>] }
    \cup { [title |-> t, links |-> l] :
             t \in TitleTexts,
             l \in { <<>>, << <<>> >> } \cup { << <<h>> >> : h \in Hrefs } }

SessionEls ==
    { [speakers |-> sp, meta |-> me, links |-> tp.links, title |-> tp.title,
       type |-> ty, description |-> de, room |-> ro] :
        sp \in SpeakerTexts, me \in MetaTexts, tp \in TitleParts,
        ty \in OtherTexts, de \in OtherTexts, ro \in OtherTexts }

Date(day) ==
    <<"2", "0", "1", "9", "-", "0", "3", "-", DigitChars[(day \div 10) + 1], DigitChars[(day % 10) + 1]>>

DATES == <<Date(6), Date(7), Date(8), Date(9), Date(10)>>

InitSession ==
    /\ pc = "session_input"
    /\ Idle
    /\ \E e \in SessionEls : arg = [el |-> e, date |-> DATES[1]]
    /\ ret = <<>>

ParseSession ==
    /\ pc = "session_input"
    /\ pc' = "session_parsed"
    /\ ret' = [session |-> parse_session(arg.el, arg.date)]
    /\ UNCHANGED <<content, sessions, jsonFile, csvFile, log, error, arg>>

WriteCsvRow ==
    /\ pc = "session_parsed"
    /\ ret.session.ok
    /\ pc' = "session_written"
    /\ ret' = [session |-> ret.session, csv |-> save_csv_rows(<<ret.session.val>>)]
    /\ UNCHANGED <<content, sessions, jsonFile, csvFile, log, error, arg>>

NextSession == ParseSession \/ WriteCsvRow

SpecSession == InitSession /\ [][NextSession]_vars

\* The '/'-separated segments of an href, counted from the positions of '/'.
SlashAt(h) == {i \in 1..Len(h) : h[i] = "/"}

SegmentCount(h) == Cardinality(SlashAt(h)) + 1

\* Position of the k-th '/', with 0 before the first segment and Len + 1
\* after the last.
SlashNo(h, k) ==
    IF k = 0 THEN 0
    ELSE IF k > Cardinality(SlashAt(h)) THEN Len(h) + 1
    ELSE CHOOSE i \in SlashAt(h) : Cardinality({j \in SlashAt(h) : j <= i}) = k

Segment(h, k) == SubSeq(h, SlashNo(h, k - 1) + 1, SlashNo(h, k) - 1)

TimeParses == ParseWindow(get_text(arg.el.meta)).ok

HasHref == arg.el.links # <<>> /\ arg.el.links[1] # <<>>

Href == arg.el.links[1][1]

LastTwoButOne(h) ==
    Segment(h, SegmentCount(h) - 2) \o <<"/">> \o Segment(h, SegmentCount(h) - 1)

\* C6 as stated: the event identifier is the third-from-last and the
\* second-from-last segment of the href joined by '/', and an href too short
\* to have them fails with an index error instead of giving a shorter one.
C6_AsStated ==
    (pc # "session_input" /\ TimeParses /\ HasHref) =>
        IF SegmentCount(Href) >= 3
        THEN ret.session.ok /\ ret.session.val.event_id = LastTwoButOne(Href)
        ELSE ret.session = Raise("IndexError")

\* C6 as amended: with three segments or more the identifier is as stated;
\* an href of two segments gives its first segment, an href of one segment
\* gives the empty identifier, both without error; the index error is
\* raised when the title has no link at all.
C6_EventId ==
    /\ (pc # "session_input" /\ TimeParses /\ HasHref) =>
          /\ ret.session.ok
          /\ ret.session.val.event_id =
                (IF SegmentCount(Href) >= 3 THEN LastTwoButOne(Href)
                 ELSE IF SegmentCount(Href) = 2 THEN Segment(Href, 1)
                 ELSE <<>>)
    /\ (pc # "session_input" /\ TimeParses /\ arg.el.links = <<>>) =>
          ret.session = Raise("IndexError")

\* The href "a/b" has given the identifier "a".
C6_Witness ==
    /\ pc = "session_parsed"
    /\ HasHref
    /\ Href = <<"a", "/", "b">>
    /\ ret.session.ok
    /\ ret.session.val.event_id = <<"a">>

ExpectedColumns ==
    <<"event_id", "type", "date", "time_start", "time_end", "room", "title",
      "speakers", "description", "event_url", "length_in_hours">>

TextFields == {"title", "type", "description", "speakers", "room"}

\* C7: every data row save_csv writes has the 11 columns in the fixed order,
\* whichever text fields of the record are absent, and the fields of every
\* record parse_session produces are exactly the CSV columns.
C7_CsvColumns ==
    /\ (pc \in {"session_parsed", "session_written"} /\ ret.session.ok) =>
          DOMAIN ret.session.val = {ExpectedColumns[k] : k \in 1..11}
    /\ pc = "session_written" =>
          /\ ret.csv.ok
          /\ Len(ret.csv.val) = 2
          /\ ret.csv.val[1] = ExpectedColumns
          /\ Len(ret.csv.val[2]) = 11
          /\ \A k \in 1..11 :
                LET f == ExpectedColumns[k] IN
                ret.csv.val[2][k] =
                    (IF f \in TextFields /\ ret.session.val[f] = None
                     THEN <<>> ELSE ret.session.val[f])

\* A record without title, type, description, speakers and room has been
\* written as a row of 11 cells.
C7_Witness ==
    /\ pc = "session_written"
    /\ \A f \in TextFields : ret.session.val[f] = None
    /\ Len(ret.csv.val[2]) = 11
    /\ ret.csv.val[2][6] = <<>>
    /\ ret.csv.val[2][4] = <<"0", "9", ":", "0", "0">>

(***************************************************************************)
(* get_sessions: zip, parse_day, chain, sorted                             *)
(***************************************************************************)
\* zip(day_els, DATES): as many pairs as the shorter of the two holds
zip_FromSecondDate(els, dates) ==
    [i \in 1..(IF Len(els) <= Len(dates) - 1 THEN Len(els) ELSE Len(dates) - 1) |->
        <<els[i], dates[i + 1]>>]

zip(els, dates) ==
    [i \in 1..(IF Len(els) <= Len(dates) THEN Len(els) ELSE Len(dates)) |->
        <<els[i], dates[i]>>]

\* The first exception among results, or the list of their values.
Collect(results) ==
    IF \E i \in 1..Len(results) : ~results[i].ok
    THEN results[CHOOSE i \in 1..Len(results) :
                    ~results[i].ok /\ \A j \in 1..(i - 1) : results[j].ok]
    ELSE Ok([i \in 1..Len(results) |-> results[i].val])

\* An element is the list of its children: list(el), one parse_session each.
parse_day(el, date) == Collect([i \in 1..Len(el) |-> parse_session(el[i], date)])

\* itertools.chain.from_iterable
RECURSIVE chain(_)
chain(nested) == IF nested = <<>> THEN <<>> ELSE nested[1] \o chain(Tail(nested))

\* itemgetter("date", "time_start", "time_end", "title")
SortKey(rec) == <<rec.date, rec.time_start, rec.time_end, rec.title>>

\* tuple < tuple: decided by the first position where the two differ; there
\* None against a text is a TypeError (None against None is equal, and is
\* never ordered).
KeyLess(a, b) ==
    IF a = b THEN "no"
    ELSE
      LET i == CHOOSE i \in 1..Len(a) : a[i] # b[i] /\ \A j \in 1..(i - 1) : a[j] = b[j]
      IN
      IF a[i] = None \/ b[i] = None THEN "TypeError"
      ELSE IF StrLess(a[i], b[i]) THEN "yes"
      ELSE "no"

\* x put into the sorted list xs, behind every element it is not smaller than.
RECURSIVE Insert(_, _)
Insert(xs, x) ==
    IF xs = <<>> THEN Ok(<<x>>)
    ELSE
      LET last == xs[Len(xs)]
          less == KeyLess(SortKey(x), SortKey(last))
      IN
      IF less = "TypeError" THEN Raise("TypeError")
      ELSE IF less = "no" THEN Ok(Append(xs, x))
      ELSE
        LET front == Insert(SubSeq(xs, 1, Len(xs) - 1), x) IN
        IF front.ok THEN Ok(Append(front.val, last)) ELSE front

\* sorted(xs, key = ...): a stable sort by "<" on the keys.  A comparison
\* raises exactly when two keys first differ in a None against a text, and
\* every stable sort has to compare such a pair, whichever order it works in.
RECURSIVE sorted(_)
sorted(xs) ==
    IF xs = <<>> THEN Ok(<<>>)
    ELSE
      LET front == sorted(SubSeq(xs, 1, Len(xs) - 1)) IN
      IF front.ok THEN Insert(front.val, xs[Len(xs)]) ELSE front

(***************************************************************************)
(* The sort on its own, on lists of records as parse_session builds them.  *)
(* The event_id of a record is its place in the extraction order.          *)
(***************************************************************************)
MaxRecs == 3

SortWindows ==
    { << <<"0", "9", ":", "0", "0">>, <<"1", "0", ":", "0", "0">> >>,
      << <<"0", "9", ":", "0", "0">>, <<"1", "0", ":", "3", "0">> >>,
      << <<"1", "3", ":", "0", "0">>, <<"1", "4", ":", "0", "0">> >> }

SortTitles == { None, <<"a">>, <<"b">> }

SortKeys ==
    { <<d, w[1], w[2], t>> : d \in {DATES[1], DATES[2]}, w \in SortWindows, t \in SortTitles }

Extracted(keys) ==
    [i \in 1..Len(keys) |->
        SessionRecord(keys[i][4], None, None, None, keys[i][1], keys[i][2], keys[i][3],
                      0, None, Digits(i), <<"/">> \o Digits(i) \o <<"/">>)]

InitSort ==
    /\ pc = "sort_input"
    /\ Idle
    /\ \E n \in 0..MaxRecs : \E keys \in [1..n -> SortKeys] :
          \* the days are extracted in the order of DATES
          /\ \A i, j \in 1..n : i < j => ~StrLess(keys[j][1], keys[i][1])
          /\ arg = Extracted(keys)
    /\ ret = <<>>

SortRecords ==
    /\ pc = "sort_input"
    /\ pc' = "sort_done"
    /\ ret' = sorted(arg)
    /\ UNCHANGED <<content, sessions, jsonFile, csvFile, log, error, arg>>

NextSort == SortRecords

SpecSort == InitSort /\ [][NextSort]_vars

\* The order of the claim on two records: by date, then start, then end, then
\* title, each as text; an absent title takes no part in it.
Precedes(r1, r2) ==
    \/ StrLess(r1.date, r2.date)
    \/ /\ r1.date = r2.date
       /\ \/ StrLess(r1.time_start, r2.time_start)
          \/ /\ r1.time_start = r2.time_start
             /\ \/ StrLess(r1.time_end, r2.time_end)
                \/ /\ r1.time_end = r2.time_end
                   /\ r1.title # None /\ r2.title # None
                   /\ StrLess(r1.title, r2.title)

PlaceOf(rec) == DigitsValue(rec.event_id)

StableSortedPermutation ==
    /\ ret.ok
    /\ Len(ret.val) = Len(arg)
    /\ {ret.val[i] : i \in 1..Len(ret.val)} = {arg[i] : i \in 1..Len(arg)}
    /\ \A i, j \in 1..Len(ret.val) :
          i < j =>
             /\ ~Precedes(ret.val[j], ret.val[i])
             /\ SortKey(ret.val[i]) = SortKey(ret.val[j])
                   => PlaceOf(ret.val[i]) < PlaceOf(ret.val[j])

\* C2: for every list of extracted records, records without title included,
\* the result of the sort is a permutation of the list in non-decreasing
\* order of (date, time_start, time_end, title), and records equal on all
\* four keys keep their extraction order.
C2_AsStated == pc = "sort_done" => StableSortedPermutation

\* Where the sort fails: two records of one date and one time window, one
\* with a title and one without.  Everywhere else it is as C2 says.
MixedTitles ==
    \E i, j \in 1..Len(arg) :
        /\ arg[i].date = arg[j].date
        /\ arg[i].time_start = arg[j].time_start
        /\ arg[i].time_end = arg[j].time_end
        /\ arg[i].title = None
        /\ arg[j].title # None

SortFailsOnMixedTitles ==
    pc = "sort_done" =>
        IF MixedTitles THEN ret = Raise("TypeError") ELSE StableSortedPermutation

(***************************************************************************)
(* main: the whole run.                                                    *)
(***************************************************************************)
\* The stages in the order main and get_sessions go through them.
Stages_CsvFirst ==
    <<"fetch", "fix_encoding", "parse_html", "extract", "sort", "save_csv", "save_json">>

Stages_WriteBeforeSort ==
    <<"fetch", "fix_encoding", "parse_html", "extract", "save_json", "sort", "save_csv">>

Stages ==
    <<"fetch", "fix_encoding", "parse_html", "extract", "sort", "save_json", "save_csv">>

\* Where the run stands once the stage it is at has returned.
After(stage) ==
    LET i == CHOOSE k \in 1..Len(Stages) : Stages[k] = stage IN
    IF i < Len(Stages) THEN Stages[i + 1] ELSE "done"

MaxDays == 6

MaxSessions == 2

GoodHref == <<"/", "a", "/", "b", "/">>

\* The session elements of the pages: a morning window or a text that is no
\* window, a title or a blank one.
PageEls ==
    { [speakers |-> <<>>, meta |-> me, links |-> << <<GoodHref>> >>, title |-> ti,
       type |-> << <<"c">> >>, description |-> <<>>, room |-> <<>>] :
        me \in { << <<"9", " ", "a", "m", " ", "-", " ", "1", "0", " ", "a", "m">> >>,
                 << <<"9", " ", "a", "m">> >> },
        ti \in { << <<" ">> >>, << <<"a">> >> } }

\* The day containers of at most k children
DayEls(k) == UNION { [1..n -> PageEls] : n \in 0..k }

\* The pages of n day containers that hold at most k sessions together
RECURSIVE Pages(_, _)
Pages(n, k) ==
    IF n = 0 THEN { <<>> }
    ELSE UNION { { <<d>> \o rest : rest \in Pages(n - 1, k - Len(d)) } : d \in DayEls(k) }

\* What the server may answer: bytes that are or are not UTF-8, and the
\* document they hold, which may be empty.
Bodies == { <<\hC3, \h83, \hC2, \hA9>>, <<\hE9>> }

Documents ==
    { [empty |-> TRUE, day_els |-> <<>>] }
    \cup { [empty |-> FALSE, day_els |-> p] : p \in UNION { Pages(n, MaxSessions) : n \in 0..MaxDays } }

Init ==
    /\ pc = "fetch"
    /\ content = [kind |-> "none"]
    /\ sessions = <<>>
    /\ jsonFile = NoFile
    /\ csvFile = NoFile
    /\ log = <<>>
    /\ error = "none"
    /\ arg = <<>>
    /\ ret = <<>>

Fail(e) ==
    /\ pc' = "failed"
    /\ error' = e

\* requests.get(...).content: one call, which raises or returns the body.
\* The status of the response is not looked at: whatever the server sent is
\* the body.
Fetch ==
    /\ pc = "fetch"
    /\ log' = Append(log, "fetch")
    /\ \/ /\ Fail("ConnectionError")
          /\ UNCHANGED content
       \/ /\ \E b \in Bodies, d \in Documents :
               content' = [kind |-> "response", bytes |-> b, document |-> d]
          /\ pc' = After("fetch")
          /\ UNCHANGED error
    /\ UNCHANGED <<sessions, jsonFile, csvFile, arg, ret>>

FixEncodingStage ==
    /\ pc = "fix_encoding"
    /\ log' = Append(log, "fix_encoding")
    /\ LET html == fix_encoding(content.bytes) IN
         IF html.ok
         THEN /\ ret' = [html |-> html.val]
              /\ pc' = After("fix_encoding")
              /\ UNCHANGED error
         ELSE /\ Fail(html.err)
              /\ UNCHANGED ret
    /\ UNCHANGED <<content, sessions, jsonFile, csvFile, arg>>

\* lxml.html.fromstring(html) and dom.cssselect("ul.schedule-list.pane")
ParseHtml ==
    /\ pc = "parse_html"
    /\ log' = Append(log, "parse_html")
    /\ IF content.document.empty
       THEN /\ Fail("ParserError")
            /\ UNCHANGED ret
       ELSE /\ ret' = [html |-> ret.html, day_els |-> content.document.day_els]
            /\ pc' = After("parse_html")
            /\ UNCHANGED error
    /\ UNCHANGED <<content, sessions, jsonFile, csvFile, arg>>

\* sessions_nested = [ parse_day(el, date) for el, date in zip(day_els, DATES) ]
Extract ==
    /\ pc = "extract"
    /\ log' = Append(log, "extract")
    /\ LET days_zipped == zip(ret.day_els, DATES)
           nested == Collect([i \in 1..Len(days_zipped) |->
                                 parse_day(days_zipped[i][1], days_zipped[i][2])])
       IN
       IF nested.ok
       THEN /\ ret' = [html |-> ret.html, day_els |-> ret.day_els,
                       sessions_nested |-> nested.val]
            /\ pc' = After("extract")
            /\ UNCHANGED error
       ELSE /\ Fail(nested.err)
            /\ UNCHANGED ret
    /\ UNCHANGED <<content, sessions, jsonFile, csvFile, arg>>

\* return list(sorted(chain.from_iterable(sessions_nested), key = ...))
Sort ==
    /\ pc = "sort"
    /\ log' = Append(log, "sort")
    /\ LET result == sorted(chain(ret.sessions_nested)) IN
         IF result.ok
         THEN /\ sessions' = result.val
              /\ pc' = After("sort")
              /\ UNCHANGED error
         ELSE /\ Fail(result.err)
              /\ UNCHANGED sessions
    /\ UNCHANGED <<content, jsonFile, csvFile, arg, ret>>

\* What get_sessions handed to main: its return value once it has returned.
Returned == IF "sort" \in {log[i] : i \in 1..Len(log)} THEN sessions ELSE <<>>

\* with open(DEST + ".json", "w") as f: json.dump(sessions, f, indent=4).
\* open may fail, leaving the file as it was; the write may fail after open
\* has created or emptied the file.
SaveJson ==
    /\ pc = "save_json"
    /\ log' = Append(log, "save_json")
    /\ \/ /\ Fail("OSError")
          /\ UNCHANGED jsonFile
       \/ /\ Fail("OSError")
          /\ jsonFile' = [state |-> "partial", data |-> <<>>]
       \/ /\ jsonFile' = [state |-> "written", data |-> Returned]
          /\ pc' = After("save_json")
          /\ UNCHANGED error
    /\ UNCHANGED <<content, sessions, csvFile, arg, ret>>

\* with open(DEST + ".csv", "w") as f: writeheader, writerows
SaveCsv ==
    /\ pc = "save_csv"
    /\ log' = Append(log, "save_csv")
    /\ LET rows == save_csv_rows(Returned) IN
       \/ /\ Fail("OSError")
          /\ UNCHANGED csvFile
       \/ /\ Fail("OSError")
          /\ csvFile' = [state |-> "partial", data |-> <<>>]
       \/ /\ ~rows.ok
          /\ Fail(rows.err)
          /\ csvFile' = [state |-> "partial", data |-> <<columns>>]
       \/ /\ rows.ok
          /\ csvFile' = [state |-> "written", data |-> rows.val]
          /\ pc' = After("save_csv")
          /\ UNCHANGED error
    /\ UNCHANGED <<content, sessions, jsonFile, arg, ret>>

Next ==
    \/ Fetch
    \/ FixEncodingStage
    \/ ParseHtml
    \/ Extract
    \/ Sort
    \/ SaveJson
    \/ SaveCsv

Spec == Init /\ [][Next]_vars

Entered(stage) == \E i \in 1..Len(log) : log[i] = stage

FailedAt(stage) == pc = "failed" /\ log # <<>> /\ log[Len(log)] = stage

ExpectedOrder ==
    <<"fetch", "fix_encoding", "parse_html", "extract", "sort", "save_json", "save_csv">>

\* C3 as stated: a run that ends in failure, whichever stage failed, has
\* written neither output file, and both files are written only by a run in
\* which every stage succeeded.
C3_AsStated ==
    /\ pc = "failed" => (jsonFile = NoFile /\ csvFile = NoFile)
    /\ (jsonFile.state = "written" /\ csvFile.state = "written") =>
          (pc = "done" /\ error = "none" /\ log = ExpectedOrder)

\* C3 as amended: a run that fails before the JSON write has touched neither
\* file; a run that fails in the JSON write has not touched the CSV file and
\* has left the JSON file untouched or incomplete; a run that fails in the
\* CSV write has already written the whole JSON file and has left the CSV
\* file untouched or incomplete; both files are written in full only by a
\* run in which every stage succeeded.
C3_NoPartialSuccess ==
    /\ (\E st \in {"fetch", "fix_encoding", "parse_html", "extract", "sort"} : FailedAt(st))
          => (jsonFile = NoFile /\ csvFile = NoFile)
    /\ FailedAt("save_json") =>
          (csvFile = NoFile /\ jsonFile.state \in {"untouched", "partial"})
    /\ FailedAt("save_csv") =>
          (jsonFile.state = "written" /\ csvFile.state \in {"untouched", "partial"})
    /\ pc = "failed" =>
          (\E st \in {ExpectedOrder[i] : i \in 1..7} : FailedAt(st))
    /\ (jsonFile.state = "written" /\ csvFile.state = "written") =>
          (pc = "done" /\ error = "none" /\ log = ExpectedOrder)

\* The CSV write has failed after the JSON file was written with a session
\* in it.
C3_Witness ==
    /\ FailedAt("save_csv")
    /\ jsonFile.state = "written"
    /\ Len(jsonFile.data) = 1
    /\ csvFile.state = "partial"

FiveDates ==
    [i \in 1..5 |->
        <<"2", "0", "1", "9", "-", "0", "3", "-">>
        \o (IF i = 5 THEN <<"1", "0">> ELSE <<"0", DigitChars[i + 6]>>)]

Containers == content.document.day_els

Processed == IF Len(Containers) <= 5 THEN Len(Containers) ELSE 5

RECURSIVE ChildrenUpTo(_)
ChildrenUpTo(i) == IF i = 0 THEN 0 ELSE ChildrenUpTo(i - 1) + Len(Containers[i])

Unparsable(el) == el.meta = << <<"9", " ", "a", "m">> >>

ExtractionDone == Entered("extract") /\ ~FailedAt("extract")

\* C5: of n day containers the first min(n, 5) are processed, in page order;
\* the sessions of the i-th get the i-th of the five dates; containers beyond
\* the fifth and dates beyond the n-th are dropped without error; every
\* child of a processed container gives one record; every record's date is
\* one of the five.
C5_PositionalDates ==
    /\ ExtractionDone =>
          /\ Len(ret.sessions_nested) = Processed
          /\ \A i \in 1..Processed :
                /\ Len(ret.sessions_nested[i]) = Len(Containers[i])
                /\ \A j \in 1..Len(Containers[i]) :
                      /\ ret.sessions_nested[i][j].date = FiveDates[i]
                      /\ (ret.sessions_nested[i][j].title = None)
                            <=> (Containers[i][j].title = << <<" ">> >>)
    /\ FailedAt("extract") =>
          \E i \in 1..Processed : \E j \in 1..Len(Containers[i]) :
              Unparsable(Containers[i][j])
    /\ (Entered("sort") /\ ~FailedAt("sort")) =>
          /\ Len(sessions) = ChildrenUpTo(Processed)
          /\ \A k \in 1..Len(sessions) : \E i \in 1..Processed : sessions[k].date = FiveDates[i]

\* A page of six containers, the sixth holding an element that cannot be
\* parsed: the run is through, with the one session of the second container
\* dated 2019-03-07.
C5_Witness ==
    /\ pc = "done"
    /\ Len(Containers) = 6
    /\ Len(Containers[6]) = 1
    /\ Unparsable(Containers[6][1])
    /\ Len(Containers[2]) = 1
    /\ Len(sessions) = 1
    /\ sessions[1].date = <<"2", "0", "1", "9", "-", "0", "3", "-", "0", "7">>

IsPrefix(a, b) == Len(a) <= Len(b) /\ a = SubSeq(b, 1, Len(a))

\* C9: the stages happen in the order fetch, encoding repair, HTML parse,
\* extraction, sort, JSON write, CSV write, each at most once (so one
\* network call, never repeated); no file is touched before the sessions are
\* parsed and sorted; the CSV write is attempted only after the JSON write
\* has succeeded; a failure in a stage ends the run, no later stage runs.
C9_StageOrder ==
    /\ IsPrefix(log, ExpectedOrder)
    /\ pc = "done" => log = ExpectedOrder
    /\ pc \notin {"done", "failed"} => (Len(log) < 7 /\ pc = ExpectedOrder[Len(log) + 1])
    /\ (jsonFile # NoFile \/ csvFile # NoFile) =>
          (Entered("extract") /\ Entered("sort") /\ ~FailedAt("extract") /\ ~FailedAt("sort"))
    /\ Entered("save_csv") => jsonFile.state = "written"
    /\ pc = "failed" => (error # "none" /\ ~ENABLED Next)
    /\ pc # "failed" => error = "none"

\* A whole run: seven stages, two sessions, both files written.
C9_Witness ==
    /\ pc = "done"
    /\ log = ExpectedOrder
    /\ Len(sessions) = 2
    /\ jsonFile.state = "written"
    /\ csvFile.state = "written"
    /\ Len(csvFile.data) = 3

====
